---- MODULE Spec2Model ----
(***************************************************************************)
(* GIP Semantic Bridge (src/src/main.ts): the relay link, the request      *)
(* router, the response cache and the Ollama client, as a state machine.   *)
(*                                                                         *)
(* Conventions.  An optional JSON field is <<>> when absent and <<v>> when *)
(* present.  Fractions are kept in tenths (temperature 0.7 is 7, top_p 0.9 *)
(* is 9).  Wall-clock values (timestamp, processingTime) are not modelled. *)
(* WebSocket readyState keeps the numbers of the ws library: 0 CONNECTING, *)
(* 1 OPEN, 2 CLOSING, 3 CLOSED.  The runtime is the one the Dockerfile     *)
(* pins (node:20): a rejected promise nobody handles ends the process.     *)
(***************************************************************************)
EXTENDS Integers, Sequences, FiniteSets, TLC

\* ---------------------------------------------------------------- bounds
MaxInbound == 2
MaxSockets == 2
MaxCount == 3
MaxBurst == 3

\* ------------------------------------------------------ program constants
WS_OPEN == 1
DefaultTemperature == 7
DefaultTopK == 40
DefaultTopP == 9
SEMANTIC_MODEL == "mistral"

\* ------------------------------------------------------- optional values
Absent == <<>>
Some(v) == <<v>>
Val(o) == o[1]

\* JavaScript `x || d` on an optional string: absent and "" are falsy.
OrStr(x, d) == IF x = Absent \/ x = Some("") THEN d ELSE Val(x)

\* JavaScript `x || d` on an optional number: absent and 0 are falsy.
OrNum(x, d) == IF x = Absent \/ x = Some(0) THEN d ELSE Val(x)

\* uuidv4(): the n-th identifier generated by the process.
UuidNames == <<"uuid-1", "uuid-2", "uuid-3", "uuid-4", "uuid-5", "uuid-6">>
uuidv4(n) == UuidNames[n]

\* ------------------------------------------------------ inbound payloads
IdValues == {Absent, Some(""), Some("a")}
PromptValues == {Absent, Some(""), Some("p")}
NoSampling == [model |-> Absent, temperature |-> Absent, topK |-> Absent, topP |-> Absent]
Sampling ==
    { NoSampling,
      [NoSampling EXCEPT !.temperature = Some(0)],
      [NoSampling EXCEPT !.temperature = Some(5)],
      [model |-> Some("phi"), temperature |-> Some(10), topK |-> Some(5), topP |-> Some(5)] }

Payload(ok, t, i, p, s) ==
    [parse |-> ok, type |-> t, id |-> i, prompt |-> p, model |-> s.model,
     temperature |-> s.temperature, topK |-> s.topK, topP |-> s.topP]

SemanticRequestPayload(i, p, s) == Payload(TRUE, Some("semantic_request"), i, p, s)

\* A payload JSON.parse rejects (or that is not an object).
Unparsable == Payload(FALSE, Absent, Absent, Absent, NoSampling)

\* Every semantic_request over the field values above.
AllRequestPayloads ==
    { SemanticRequestPayload(i, p, s) : i \in IdValues, p \in PromptValues, s \in Sampling }

\* The semantic_request payloads the relay delivers to the bridge: a plain
\* request, a second one with the same id, and one for each way of leaving
\* the id out; between them every field value above occurs.
RequestPayloads ==
    { SemanticRequestPayload(Some("a"), Some("p"), NoSampling),
      SemanticRequestPayload(Some("a"), Some(""), [NoSampling EXCEPT !.temperature = Some(0)]),
      SemanticRequestPayload(Some(""), Some("p"),
          [model |-> Some("phi"), temperature |-> Some(10), topK |-> Some(5), topP |-> Some(5)]),
      SemanticRequestPayload(Absent, Absent, [NoSampling EXCEPT !.temperature = Some(5)]) }

\* The payloads handleFederationMessage drops: unparsable, without a type,
\* of another type.
OtherPayloads ==
    { Unparsable,
      Payload(TRUE, Absent, Some("a"), Some("p"), NoSampling),
      Payload(TRUE, Some("ping"), Some("a"), Some("p"), NoSampling) }

Payloads == RequestPayloads \cup OtherPayloads

\* Backend replies to POST /api/generate used against the bridge.
Replies ==
    { [response |-> "x", prompt_eval_count |-> Some(3), eval_count |-> Some(1)],
      [response |-> "y", prompt_eval_count |-> Absent, eval_count |-> Absent] }

\* What axios.post throws on a network error or on the request timeout.
BackendErrors == {"Error: timeout of 60000ms exceeded"}

\* What `request.prompt.substring(0, 50)` throws when prompt is undefined.
PromptTypeError == "TypeError: Cannot read properties of undefined"

\* ------------------------------------------------------- pure functions
\* handleFederationMessage: the payload is discarded by the catch of
\* JSON.parse or by the `!data.type` test.
Malformed(data) == ~data.parse \/ data.type = Absent \/ data.type = Some("")

\* Mutant: a payload without a type is taken for a semantic_request.
IsSemanticRequest_DefaultType(data) ==
    data.parse /\ data.type \in {Absent, Some(""), Some("semantic_request")}

\* Mutant: every typed payload is taken for a semantic_request.
IsSemanticRequest_AnyType(data) == ~Malformed(data)

\* handleFederationMessage: the payload enters the semantic_request branch.
IsSemanticRequest(data) == ~Malformed(data) /\ data.type = Some("semantic_request")

\* handleFederationMessage: the SemanticRequest built from a payload.
BuildRequest(data, fresh) ==
    [id |-> OrStr(data.id, fresh), prompt |-> data.prompt, model |-> data.model,
     temperature |-> data.temperature, topK |-> data.topK, topP |-> data.topP]

\* handleFederationMessage: whether `data.id || uuidv4()` calls uuidv4.
NeedsUuid(data) == data.id = Absent \/ data.id = Some("")

\* OllamaClient.generate: the log line before the POST dereferences prompt.
GenerateThrowsEarly(request) == request.prompt = Absent

\* OllamaClient.generate: the body of POST /api/generate.
GenerateBody(request) ==
    [model |-> OrStr(request.model, SEMANTIC_MODEL),
     prompt |-> Val(request.prompt),
     temperature |-> OrNum(request.temperature, DefaultTemperature),
     top_k |-> OrNum(request.topK, DefaultTopK),
     top_p |-> OrNum(request.topP, DefaultTopP),
     stream |-> FALSE]

\* Mutant: total forgets the prompt tokens.
TokenCounts_CompletionOnly(data) ==
    [prompt |-> OrNum(data.prompt_eval_count, 0),
     completion |-> OrNum(data.eval_count, 0),
     total |-> OrNum(data.eval_count, 0)]

\* OllamaClient.generate and OllamaClient.chat: token accounting.
TokenCounts(data) ==
    [prompt |-> OrNum(data.prompt_eval_count, 0),
     completion |-> OrNum(data.eval_count, 0),
     total |-> OrNum(data.prompt_eval_count, 0) + OrNum(data.eval_count, 0)]

\* Mutant: the response gets an id of its own instead of the request's.
GenerateResponse_FreshId(request, data) ==
    [id |-> uuidv4(1), prompt |-> request.prompt,
     model |-> OrStr(request.model, SEMANTIC_MODEL),
     response |-> data.response, tokens |-> TokenCounts(data)]

\* OllamaClient.generate: the SemanticResponse returned on success.
GenerateResponse(request, data) ==
    [id |-> request.id, prompt |-> request.prompt,
     model |-> OrStr(request.model, SEMANTIC_MODEL),
     response |-> data.response, tokens |-> TokenCounts(data)]

\* OllamaClient.chat: the body of POST /api/chat.
ChatBody(messages, request) ==
    [model |-> OrStr(request.model, SEMANTIC_MODEL),
     messages |-> messages,
     temperature |-> OrNum(request.temperature, DefaultTemperature),
     stream |-> FALSE]

\* OllamaClient.chat: the SemanticResponse returned on success.
ChatResponse(request, data) ==
    [id |-> request.id, prompt |-> request.prompt,
     model |-> OrStr(request.model, SEMANTIC_MODEL),
     response |-> data.message.content, tokens |-> TokenCounts(data)]

\* Map<string, SemanticResponse>: a sequence of entries in insertion order.
MapHas(m, k) == \E i \in 1..Len(m) : m[i].key = k
MapIndex(m, k) == CHOOSE i \in 1..Len(m) : m[i].key = k /\ \A j \in 1..(i - 1) : m[j].key # k

\* Map.prototype.get: <<>> stands for undefined.
MapGet(m, k) == IF MapHas(m, k) THEN Some(m[MapIndex(m, k)].value) ELSE Absent

\* Mutant: an existing entry is kept (first write wins).
MapSet_KeepFirst(m, k, v) ==
    IF MapHas(m, k) THEN m ELSE Append(m, [key |-> k, value |-> v])

\* Mutant: every write appends, so a key can be listed twice.
MapSet_AppendAlways(m, k, v) == Append(m, [key |-> k, value |-> v])

\* Mutant: an overwritten key moves to the end of the iteration order.
MapSet_MoveToEnd(m, k, v) ==
    Append(SelectSeq(m, LAMBDA e : e.key # k), [key |-> k, value |-> v])

\* Map.prototype.set: overwrite in place, or append a new entry.
MapSet(m, k, v) ==
    IF MapHas(m, k)
    THEN [m EXCEPT ![MapIndex(m, k)] = [key |-> k, value |-> v]]
    ELSE Append(m, [key |-> k, value |-> v])

\* Map.prototype.keys, as Array.from lists them.
MapKeys(m) == [i \in 1..Len(m) |-> m[i].key]

\* ----------------------------------------------------------------- state
VARIABLES
    mainPc,               \* main(): "start", "probed", "connecting", "running", "exited"
    exitCode,             \* process exit status once mainPc = "exited"
    ollamaAvailable,      \* initialize(): the local of that name, while in scope
    sockets,              \* every WebSocket created, in creation order
    federationConnection, \* index into sockets, 0 for null
    timers,               \* pending setTimeout(connectToFederation, 5000)
    processingQueue,
    messageCache,
    uuidCount,            \* uuidv4() calls so far
    inflight,             \* queue positions whose generate() awaits the POST
    backendCalls,         \* POST /api/generate bodies issued, in order
    outbox,               \* messages passed to WebSocket.send, in order
    accepted,             \* per queued request: its payload and arrival point
    completed,            \* processRequest outcomes, in completion order
    received,             \* payloads handed to handleFederationMessage so far
    lastInbound,          \* the last of them
    statsOut,             \* whether the statistics interval has printed a line
    client                \* the last direct call of OllamaClient

vars == <<mainPc, exitCode, ollamaAvailable, sockets, federationConnection, timers,
          processingQueue, messageCache, uuidCount, inflight, backendCalls, outbox,
          accepted, completed, received, lastInbound, statsOut, client>>

bridgeVars == <<processingQueue, messageCache, uuidCount, inflight, backendCalls,
                outbox, accepted, completed, received, lastInbound>>
linkVars == <<sockets, federationConnection, timers>>
mainVars == <<mainPc, exitCode, ollamaAvailable>>

alive == mainPc # "exited"

\* The state after `new SemanticBridge()`, before main() awaits initialize().
Init ==
    /\ mainPc = "start"
    /\ exitCode = Absent
    /\ ollamaAvailable = Absent
    /\ sockets = <<>>
    /\ federationConnection = 0
    /\ timers = 0
    /\ processingQueue = <<>>
    /\ messageCache = <<>>
    /\ uuidCount = 0
    /\ inflight = {}
    /\ backendCalls = <<>>
    /\ outbox = <<>>
    /\ accepted = <<>>
    /\ completed = <<>>
    /\ received = 0
    /\ lastInbound = Absent
    /\ statsOut = FALSE
    /\ client = Absent

\* ------------------------------------------------------------ relay link
\* Mutant: a new handle counts as open before its handshake.
NewSocket_AlreadyOpen == [readyState |-> 1, promise |-> "pending"]

\* connectToFederation: `new WebSocket(url)` and the promise around it.
NewSocket == [readyState |-> 0, promise |-> "pending"]

\* The promise of socket s is the one initialize() awaits.
AwaitedByInitialize(s) == s = 1

\* processRequest: `this.federationConnection?.readyState === 1`.
ConnectionOpen ==
    /\ federationConnection # 0
    /\ sockets[federationConnection].readyState = WS_OPEN

\* The link state of the design: the state of the current handle.
LinkState ==
    IF federationConnection = 0 THEN "Disconnected"
    ELSE IF sockets[federationConnection].readyState = 0 THEN "Connecting"
    ELSE IF sockets[federationConnection].readyState = WS_OPEN THEN "Connected"
    ELSE "Disconnected"

\* Mutant: an unavailable backend aborts the start.
Probe_FatalWhenUnavailable ==
    /\ mainPc = "start"
    /\ \E b \in BOOLEAN :
          /\ ollamaAvailable' = Some(b)
          /\ mainPc' = IF b THEN "probed" ELSE "exited"
          /\ exitCode' = IF b THEN exitCode ELSE Some(1)
    /\ UNCHANGED <<linkVars, bridgeVars, statsOut, client>>

\* initialize: `await this.ollama.isAvailable()` (and listModels, which only logs).
Probe ==
    /\ mainPc = "start"
    /\ \E b \in BOOLEAN : ollamaAvailable' = Some(b)
    /\ mainPc' = "probed"
    /\ UNCHANGED <<exitCode, linkVars, bridgeVars, statsOut, client>>

\* initialize: `await this.connectToFederation()` creates the first handle.
InitialConnect ==
    /\ mainPc = "probed"
    /\ mainPc' = "connecting"
    /\ sockets' = Append(sockets, NewSocket)
    /\ federationConnection' = Len(sockets) + 1
    /\ UNCHANGED <<exitCode, ollamaAvailable, timers, bridgeVars, statsOut, client>>

\* connectToFederation: `new WebSocket(url)` throws on a malformed URL; the
\* catch rejects, initialize rejects and main's catch calls process.exit(1).
InitialConnectThrows ==
    /\ mainPc = "probed"
    /\ mainPc' = "exited"
    /\ exitCode' = Some(1)
    /\ ollamaAvailable' = Absent
    /\ UNCHANGED <<linkVars, bridgeVars, statsOut, client>>

\* 'open' handler: resolve(); the first handle's promise resumes main().
SocketOpen(s) ==
    /\ alive
    /\ sockets[s].readyState = 0
    /\ sockets' = [sockets EXCEPT ![s] = [readyState |-> WS_OPEN, promise |-> "resolved"]]
    /\ IF AwaitedByInitialize(s)
       THEN mainPc' = "running" /\ ollamaAvailable' = Absent
       ELSE UNCHANGED <<mainPc, ollamaAvailable>>
    /\ UNCHANGED <<exitCode, federationConnection, timers, bridgeVars, statsOut, client>>

\* Mutant: every attempt settles the one promise initialize() awaits.
ConnectFail_SharedPromise(s) ==
    /\ alive
    /\ sockets[s].readyState = 0
    /\ sockets' = [sockets EXCEPT ![s] = [readyState |-> 3, promise |-> "rejected"],
                                  ![1].promise = "rejected"]
    /\ timers' = timers + 1
    /\ mainPc' = "exited"
    /\ exitCode' = Some(1)
    /\ ollamaAvailable' = Absent
    /\ UNCHANGED <<federationConnection, bridgeVars, statsOut, client>>

\* A connection attempt fails: ws emits 'error' and then 'close' in one turn.
\* The error handler rejects the pending promise and the close handler arms
\* the timer.  The rejection reaches main's catch (first handle) or nobody
\* (a reconnect: the timer callback drops the promise); both end the process.
ConnectFail(s) ==
    /\ alive
    /\ sockets[s].readyState = 0
    /\ sockets' = [sockets EXCEPT ![s] = [readyState |-> 3, promise |-> "rejected"]]
    /\ timers' = timers + 1
    /\ mainPc' = "exited"
    /\ exitCode' = Some(1)
    /\ ollamaAvailable' = Absent
    /\ UNCHANGED <<federationConnection, bridgeVars, statsOut, client>>

\* Mutant: the 'error' handler arms a reconnect timer too.
SocketError_AlsoReconnects(s) ==
    /\ alive
    /\ sockets[s].readyState = WS_OPEN
    /\ sockets' = [sockets EXCEPT ![s].readyState = 2]
    /\ timers' = timers + 1
    /\ UNCHANGED <<mainVars, federationConnection, bridgeVars, statsOut, client>>

\* 'error' handler on an open handle: reject() of a settled promise is a no-op.
SocketError(s) ==
    /\ alive
    /\ sockets[s].readyState = WS_OPEN
    /\ sockets' = [sockets EXCEPT ![s].readyState = 2]
    /\ UNCHANGED <<mainVars, federationConnection, timers, bridgeVars, statsOut, client>>

\* 'close' handler: setTimeout(() => this.connectToFederation(), 5000).
SocketClose(s) ==
    /\ alive
    /\ sockets[s].readyState \in {WS_OPEN, 2}
    /\ sockets' = [sockets EXCEPT ![s].readyState = 3]
    /\ timers' = timers + 1
    /\ UNCHANGED <<mainVars, federationConnection, bridgeVars, statsOut, client>>

\* The 5000 ms timer fires: connectToFederation creates the next handle.
ReconnectTimer ==
    /\ alive
    /\ timers > 0
    /\ Len(sockets) < MaxSockets
    /\ timers' = timers - 1
    /\ sockets' = Append(sockets, NewSocket)
    /\ federationConnection' = Len(sockets) + 1
    /\ UNCHANGED <<mainVars, bridgeVars, statsOut, client>>

\* -------------------------------------------------------- request router
\* Mutant: the message goes out on the handle the bridge started with.
Wire_OnFirstHandle(type, id, response, error, rid) ==
    [type |-> type, id |-> id, response |-> response, error |-> error,
     sock |-> 1, rid |-> rid]

\* WebSocket.send of one outbound message on the current handle.
Wire(type, id, response, error, rid) ==
    [type |-> type, id |-> id, response |-> response, error |-> error,
     sock |-> federationConnection, rid |-> rid]

\* Mutant: the semantic_response is sent without looking at readyState.
SendResponse_Unconditional(out, response, rid) ==
    Append(out, Wire("semantic_response", response.id, Some(response), Absent, rid))

\* processRequest, success branch: the semantic_response, if the link is open.
SendResponse(out, response, rid) ==
    IF ConnectionOpen
    THEN Append(out, Wire("semantic_response", response.id, Some(response), Absent, rid))
    ELSE out

\* Mutant: the semantic_error is sent without the request's id.
SendError_NoId(out, request, error, rid) ==
    IF ConnectionOpen
    THEN Append(out, Wire("semantic_error", "", Absent, Some(error), rid))
    ELSE out

\* processRequest, catch branch: the semantic_error, if the link is open.
SendError(out, request, error, rid) ==
    IF ConnectionOpen
    THEN Append(out, Wire("semantic_error", request.id, Absent, Some(error), rid))
    ELSE out

\* handleFederationMessage for a payload that is dropped: nothing but a log line.
ReceiveDiscard(s, data) ==
    /\ alive
    /\ sockets[s].readyState = WS_OPEN
    /\ received < MaxInbound
    /\ ~IsSemanticRequest(data)
    /\ received' = received + 1
    /\ lastInbound' = Some(data)
    /\ UNCHANGED <<mainVars, linkVars, processingQueue, messageCache, uuidCount, inflight,
                   backendCalls, outbox, accepted, completed, statsOut, client>>

\* handleFederationMessage for a semantic_request, up to the first await that
\* yields: the request is queued and generate() either issues the POST or
\* throws at once, in which case processRequest's catch runs in the same turn.
Accept(s, data) ==
    /\ alive
    /\ sockets[s].readyState = WS_OPEN
    /\ IsSemanticRequest(data)
    /\ LET request == BuildRequest(data, uuidv4(uuidCount + 1))
           rid == Len(processingQueue) + 1
       IN /\ uuidCount' = IF NeedsUuid(data) THEN uuidCount + 1 ELSE uuidCount
          /\ processingQueue' = Append(processingQueue, request)
          /\ accepted' = Append(accepted, [data |-> data, after |-> Len(completed)])
          /\ received' = received + 1
          /\ lastInbound' = Some(data)
          /\ IF GenerateThrowsEarly(request)
             THEN /\ outbox' = SendError(outbox, request, PromptTypeError, rid)
                  /\ completed' = Append(completed, [rid |-> rid, response |-> Absent])
                  /\ UNCHANGED <<inflight, backendCalls>>
             ELSE /\ backendCalls' = Append(backendCalls, [rid |-> rid, body |-> GenerateBody(request)])
                  /\ inflight' = inflight \cup {rid}
                  /\ UNCHANGED <<outbox, completed>>
    /\ UNCHANGED <<mainVars, linkVars, messageCache, statsOut, client>>

\* The 'message' handler fires for a semantic_request.
ReceiveRequest(s, data) ==
    /\ received < MaxInbound
    /\ Accept(s, data)

\* Mutant: a message is taken only once no backend call is in flight.
ReceiveBurst_WaitsForIdle(s, data) ==
    /\ received < MaxBurst
    /\ inflight = {}
    /\ Accept(s, data)

\* The 'message' handler fires for one of a burst of semantic_requests.
ReceiveBurst(s, data) ==
    /\ received < MaxBurst
    /\ Accept(s, data)

\* Mutant: the response is cached only when it is also sent.
BackendReply_CacheOnlyWhenSent(rid, data) ==
    /\ alive
    /\ rid \in inflight
    /\ LET request == processingQueue[rid]
           response == GenerateResponse(request, data)
       IN /\ messageCache' = IF ConnectionOpen
                             THEN MapSet(messageCache, request.id, response)
                             ELSE messageCache
          /\ outbox' = SendResponse(outbox, response, rid)
          /\ completed' = Append(completed, [rid |-> rid, response |-> Some(response)])
    /\ inflight' = inflight \ {rid}
    /\ UNCHANGED <<mainVars, linkVars, processingQueue, uuidCount, backendCalls, accepted,
                   received, lastInbound, statsOut, client>>

\* Mutant: a completed request is taken off the head of the queue.
BackendReply_Dequeue(rid, data) ==
    /\ alive
    /\ rid \in inflight
    /\ LET request == processingQueue[rid]
           response == GenerateResponse(request, data)
       IN /\ messageCache' = MapSet(messageCache, request.id, response)
          /\ outbox' = SendResponse(outbox, response, rid)
          /\ completed' = Append(completed, [rid |-> rid, response |-> Some(response)])
    /\ inflight' = inflight \ {rid}
    /\ processingQueue' = Tail(processingQueue)
    /\ UNCHANGED <<mainVars, linkVars, uuidCount, backendCalls, accepted,
                   received, lastInbound, statsOut, client>>

\* Mutant: after the semantic_response the catch branch runs as well.
BackendReply_ThenError(rid, data) ==
    /\ alive
    /\ rid \in inflight
    /\ LET request == processingQueue[rid]
           response == GenerateResponse(request, data)
       IN /\ messageCache' = MapSet(messageCache, request.id, response)
          /\ outbox' = SendError(SendResponse(outbox, response, rid), request, PromptTypeError, rid)
          /\ completed' = Append(completed, [rid |-> rid, response |-> Some(response)])
    /\ inflight' = inflight \ {rid}
    /\ UNCHANGED <<mainVars, linkVars, processingQueue, uuidCount, backendCalls, accepted,
                   received, lastInbound, statsOut, client>>

\* processRequest resumes with the backend's reply: cache, then send.
BackendReply(rid, data) ==
    /\ alive
    /\ rid \in inflight
    /\ LET request == processingQueue[rid]
           response == GenerateResponse(request, data)
       IN /\ messageCache' = MapSet(messageCache, request.id, response)
          /\ outbox' = SendResponse(outbox, response, rid)
          /\ completed' = Append(completed, [rid |-> rid, response |-> Some(response)])
    /\ inflight' = inflight \ {rid}
    /\ UNCHANGED <<mainVars, linkVars, processingQueue, uuidCount, backendCalls, accepted,
                   received, lastInbound, statsOut, client>>

\* Mutant: the catch branch repeats the POST once before giving up.
BackendFail_RetryOnce(rid, error) ==
    /\ alive
    /\ rid \in inflight
    /\ LET calls == { k \in 1..Len(backendCalls) : backendCalls[k].rid = rid }
       IN IF Cardinality(calls) = 1
          THEN /\ backendCalls' = Append(backendCalls,
                                         [rid |-> rid, body |-> GenerateBody(processingQueue[rid])])
               /\ UNCHANGED <<outbox, completed, inflight>>
          ELSE /\ outbox' = SendError(outbox, processingQueue[rid], error, rid)
               /\ completed' = Append(completed, [rid |-> rid, response |-> Absent])
               /\ inflight' = inflight \ {rid}
               /\ UNCHANGED backendCalls
    /\ UNCHANGED <<mainVars, linkVars, processingQueue, messageCache, uuidCount,
                   accepted, received, lastInbound, statsOut, client>>

\* processRequest resumes with the POST's error or timeout: the catch branch.
BackendFail(rid, error) ==
    /\ alive
    /\ rid \in inflight
    /\ outbox' = SendError(outbox, processingQueue[rid], error, rid)
    /\ completed' = Append(completed, [rid |-> rid, response |-> Absent])
    /\ inflight' = inflight \ {rid}
    /\ UNCHANGED <<mainVars, linkVars, processingQueue, messageCache, uuidCount, backendCalls,
                   accepted, received, lastInbound, statsOut, client>>

\* getResponse(id).
getResponse(id) == MapGet(messageCache, id)

\* getStats().
getStats ==
    [queueLength |-> Len(processingQueue),
     cacheSize |-> Len(messageCache),
     cachedResponses |-> MapKeys(messageCache)]

\* Mutant: the callback prints whatever the counters are.
StatsTick_Always ==
    /\ mainPc = "running"
    /\ statsOut' = TRUE
    /\ UNCHANGED <<mainVars, linkVars, bridgeVars, client>>

\* main: the setInterval callback, installed once initialize() has returned.
StatsTick ==
    /\ mainPc = "running"
    /\ LET stats == getStats
       IN statsOut' = (statsOut \/ stats.queueLength > 0 \/ stats.cacheSize > 0)
    /\ UNCHANGED <<mainVars, linkVars, bridgeVars, client>>

Next ==
    \/ Probe
    \/ InitialConnect
    \/ InitialConnectThrows
    \/ \E s \in 1..Len(sockets) : SocketOpen(s)
    \/ \E s \in 1..Len(sockets) : ConnectFail(s)
    \/ \E s \in 1..Len(sockets) : SocketError(s)
    \/ \E s \in 1..Len(sockets) : SocketClose(s)
    \/ ReconnectTimer
    \/ \E s \in 1..Len(sockets), data \in Payloads : ReceiveDiscard(s, data)
    \/ \E s \in 1..Len(sockets), data \in Payloads : ReceiveRequest(s, data)
    \/ \E rid \in inflight, data \in Replies : BackendReply(rid, data)
    \/ \E rid \in inflight, error \in BackendErrors : BackendFail(rid, error)
    \/ StatsTick

Spec == Init /\ [][Next]_vars

\* ------------------------------------------------ a burst on a steady link
\* The bridge while the relay stays up and delivers only semantic_requests:
\* with fewer interleavings to explore, the burst can be one message longer
\* than under Spec.
BurstPayloads == RequestPayloads

NextBurst ==
    \/ Probe
    \/ InitialConnect
    \/ \E s \in 1..Len(sockets) : SocketOpen(s)
    \/ \E s \in 1..Len(sockets), data \in BurstPayloads : ReceiveBurst(s, data)
    \/ \E rid \in inflight, data \in Replies : BackendReply(rid, data)
    \/ \E rid \in inflight, error \in BackendErrors : BackendFail(rid, error)

BurstSpec == Init /\ [][NextBurst]_vars

\* ------------------------------------------- OllamaClient called directly
\* Requests and backend replies the client is exercised with on its own.
ClientRequests == { BuildRequest(data, uuidv4(1)) : data \in AllRequestPayloads }
Counts == {Absent} \cup { Some(n) : n \in 0..MaxCount }
GenerateReplies ==
    { [response |-> "x", prompt_eval_count |-> p, eval_count |-> e] : p \in Counts, e \in Counts }
ChatReplies ==
    { [message |-> [content |-> "x"], prompt_eval_count |-> p, eval_count |-> e] :
          p \in Counts, e \in Counts }
Histories ==
    { <<[role |-> "user", content |-> "p"]>>,
      <<[role |-> "system", content |-> "s"], [role |-> "user", content |-> "p"]>> }

CallRecord(op, request, body, data, result) ==
    Some([op |-> op, request |-> request, body |-> body, data |-> data, result |-> result])

\* generate(request) with the POST answered by data.
ClientGenerate(request, data) ==
    /\ ~GenerateThrowsEarly(request)
    /\ client' = CallRecord("generate", request, Some(GenerateBody(request)), Some(data),
                            Some(GenerateResponse(request, data)))
    /\ UNCHANGED <<mainVars, linkVars, bridgeVars, statsOut>>

\* generate(request) rethrows: before the POST (no prompt) or from it.
ClientGenerateThrows(request) ==
    /\ client' = CallRecord("generate", request,
                            IF GenerateThrowsEarly(request) THEN Absent
                            ELSE Some(GenerateBody(request)),
                            Absent, Absent)
    /\ UNCHANGED <<mainVars, linkVars, bridgeVars, statsOut>>

\* chat(messages, request) with the POST answered by data.
ClientChat(messages, request, data) ==
    /\ client' = CallRecord("chat", request, Some(ChatBody(messages, request)), Some(data),
                            Some(ChatResponse(request, data)))
    /\ UNCHANGED <<mainVars, linkVars, bridgeVars, statsOut>>

\* chat(messages, request) rethrows the POST's error.
ClientChatThrows(messages, request) ==
    /\ client' = CallRecord("chat", request, Some(ChatBody(messages, request)), Absent, Absent)
    /\ UNCHANGED <<mainVars, linkVars, bridgeVars, statsOut>>

NextClient ==
    \/ \E request \in ClientRequests, data \in GenerateReplies : ClientGenerate(request, data)
    \/ \E request \in ClientRequests : ClientGenerateThrows(request)
    \/ \E messages \in Histories, request \in ClientRequests, data \in ChatReplies :
           ClientChat(messages, request, data)
    \/ \E messages \in Histories, request \in ClientRequests : ClientChatThrows(messages, request)

ClientSpec == Init /\ [][NextClient]_vars

\* ------------------------------------------------------ history helpers
Rids == 1..Len(processingQueue)
Done == 1..Len(completed)

\* The identifier of the request whose outcome is completed[i].
IdAt(i) == processingQueue[completed[i].rid].id

\* completed[i] is a success: its response was written to the cache.
SuccessAt(i) == completed[i].response # Absent

\* completed[i] is the last success so far for its identifier.
LastSuccessAt(i) ==
    /\ SuccessAt(i)
    /\ \A j \in Done : (j > i /\ SuccessAt(j)) => IdAt(j) # IdAt(i)

\* completed[i] and completed[j] are the only successes for their identifier.
OnlySuccesses(i, j) ==
    /\ SuccessAt(i) /\ SuccessAt(j) /\ IdAt(i) = IdAt(j)
    /\ \A k \in Done : (SuccessAt(k) /\ IdAt(k) = IdAt(i)) => k \in {i, j}

Failed(rid) == \E i \in Done : completed[i].rid = rid /\ ~SuccessAt(i)

\* ---------------------------------------------------------------- claims

\* C1: every semantic_response sent for a request whose payload had an id
\* (any present value, the empty string included) carries that very id.
C1_ResponseCarriesInboundId ==
    \A i \in 1..Len(outbox) :
        LET m == outbox[i]
            inbound == accepted[m.rid].data.id
        IN (m.type = "semantic_response" /\ inbound # Absent) => m.id = Val(inbound)

\* C2 (as claimed): of two successful requests with the same id, and no third,
\* the cache holds the result of the one that arrived later, whatever the
\* order of completion (which would follow if no two were ever in flight).
C2_LaterArrivalWins ==
    \A i, j \in Done :
        (OnlySuccesses(i, j) /\ completed[i].rid < completed[j].rid)
            => getResponse(IdAt(i)) = completed[j].response

\* C2 (amended): processRequest invocations overlap at the backend call and
\* write the cache in completion order: for every id the cache holds the
\* result of the successful request with that id that completed last.
C2_LastCompletionWins ==
    \A i \in Done : LastSuccessAt(i) => getResponse(IdAt(i)) = completed[i].response

\* Two same-id requests overlapped, the later arrival completed first, and
\* the cache is left with the earlier arrival's (different) result.
C2_Witness ==
    \E i, j \in Done :
        /\ i < j /\ OnlySuccesses(i, j)
        /\ completed[j].rid < completed[i].rid
        /\ accepted[completed[i].rid].after = 0
        /\ completed[i].response # completed[j].response
        /\ getResponse(IdAt(i)) = completed[j].response

\* A processRequest invocation ends in this step, in its catch branch.
FailureStep ==
    /\ Len(completed') = Len(completed) + 1
    /\ completed'[Len(completed')].response = Absent

\* C3: when a request's backend call fails, the step leaves the cache as it
\* was and, with the link Connected, appends exactly one semantic_error with
\* the request's id; no semantic_response is ever sent for a failed request.
C3_FailureSendsOnlyError ==
    /\ [][FailureStep =>
            LET rid == completed'[Len(completed')].rid
            IN /\ messageCache' = messageCache
               /\ ConnectionOpen =>
                    /\ Len(outbox') = Len(outbox) + 1
                    /\ SubSeq(outbox', 1, Len(outbox)) = outbox
                    /\ outbox'[Len(outbox')].type = "semantic_error"
                    /\ outbox'[Len(outbox')].rid = rid
                    /\ outbox'[Len(outbox')].id = processingQueue'[rid].id]_vars
    /\ [](\A rid \in Rids : Failed(rid) =>
            /\ \A i \in 1..Len(outbox) : outbox[i].rid = rid => outbox[i].type = "semantic_error"
            /\ Cardinality({ i \in 1..Len(outbox) : outbox[i].rid = rid }) <= 1)

\* A backend call failed with the link open: its semantic_error is on the
\* wire and its id, never cached before, is still absent from the cache.
C3_Witness ==
    \E rid \in Rids :
        /\ Failed(rid)
        /\ rid \in { backendCalls[i].rid : i \in 1..Len(backendCalls) }
        /\ getResponse(processingQueue[rid].id) = Absent
        /\ \E i \in 1..Len(outbox) :
               /\ outbox[i].rid = rid
               /\ outbox[i].type = "semantic_error"
               /\ outbox[i].id = processingQueue[rid].id

\* C4: a step that receives an unparsable payload or one without a type sends
\* nothing, calls no backend and leaves the queue and the cache untouched.
C4_MalformedIsDiscarded ==
    [][(received' = received + 1 /\ Malformed(Val(lastInbound')))
          => /\ UNCHANGED <<outbox, backendCalls, inflight, processingQueue, messageCache>>
             /\ getStats' = getStats]_vars

\* A malformed payload arrived while the statistics were already nonzero.
C4_Witness ==
    /\ lastInbound # Absent
    /\ Malformed(Val(lastInbound))
    /\ Len(processingQueue) > 0
    /\ Len(messageCache) > 0

\* C5: the temperature of every POST /api/generate equals the temperature of
\* the payload that caused it, whenever that lies in [0, 1] (0..10 tenths).
C5_TemperatureVerbatim ==
    \A i \in 1..Len(backendCalls) :
        LET t == accepted[backendCalls[i].rid].data.temperature
        IN (t # Absent /\ Val(t) \in 0..10) => backendCalls[i].body.temperature = Val(t)

\* C6: a response built by generate or chat has total = prompt + completion,
\* each of them the backend's count, or 0 where the reply has none.
C6_TokensAddUp ==
    (client # Absent /\ Val(client).result # Absent) =>
        LET data == Val(Val(client).data)
            tokens == Val(Val(client).result).tokens
            count(c) == IF c = Absent THEN 0 ELSE Val(c)
        IN /\ tokens.prompt = count(data.prompt_eval_count)
           /\ tokens.completion = count(data.eval_count)
           /\ tokens.total = tokens.prompt + tokens.completion

\* chat answered without a prompt count and with a positive completion count.
C6_Witness ==
    /\ client # Absent
    /\ Val(client).op = "chat"
    /\ Val(client).result # Absent
    /\ Val(Val(client).data).prompt_eval_count = Absent
    /\ Val(Val(client).data).eval_count = Some(2)
    /\ Val(Val(client).result).tokens.total = 2

\* A response is written to the cache in this step.
PutStep ==
    /\ Len(completed') = Len(completed) + 1
    /\ completed'[Len(completed')].response # Absent

\* C7: a put makes get(id) the value put, keeps one entry for id and leaves
\* every other entry as it was; an id never put is absent.
C7_CacheLastWriteWins ==
    /\ [][PutStep =>
            LET r == completed'[Len(completed')].response
                id == processingQueue[completed'[Len(completed')].rid].id
            IN /\ MapGet(messageCache', id) = r
               /\ Cardinality({ i \in 1..Len(messageCache') : messageCache'[i].key = id }) = 1
               /\ \A i \in 1..Len(messageCache) :
                      messageCache[i].key # id =>
                          MapGet(messageCache', messageCache[i].key) = Some(messageCache[i].value)
               /\ \A i \in 1..Len(messageCache') :
                      messageCache'[i].key # id => MapHas(messageCache, messageCache'[i].key)]_vars
    /\ [](\A i \in 1..Len(messageCache) :
              \E j \in Done : SuccessAt(j) /\ IdAt(j) = messageCache[i].key)
    /\ [](getResponse("b") = Absent)

\* An id was put twice with different values: get returns the second, the
\* cache has one entry, and an id never put is absent.
C7_Witness ==
    \E i, j \in Done :
        /\ i < j /\ OnlySuccesses(i, j)
        /\ completed[i].response # completed[j].response
        /\ getResponse(IdAt(j)) = completed[j].response
        /\ Len(messageCache) = 1
        /\ getResponse("b") = Absent

\* completed[i] was there when the request of completed[j] arrived.
Sequential(i, j) == i <= accepted[completed[j].rid].after

\* C8: two same-id requests handled one after the other, both successful:
\* getResponse(id) is the second's result and cachedResponses lists id once.
C8_SequentialDuplicate ==
    \A i, j \in Done :
        (OnlySuccesses(i, j) /\ Sequential(i, j))
            => /\ getResponse(IdAt(i)) = completed[j].response
               /\ Cardinality({ k \in 1..getStats.cacheSize :
                                    getStats.cachedResponses[k] = IdAt(i) }) = 1

\* Such a pair, with different prompts and different results.
C8_Witness ==
    \E i, j \in Done :
        /\ OnlySuccesses(i, j) /\ Sequential(i, j)
        /\ processingQueue[completed[i].rid].prompt # processingQueue[completed[j].rid].prompt
        /\ Val(completed[i].response).response # Val(completed[j].response).response
        /\ getResponse(IdAt(i)) = completed[j].response
        /\ getStats.cacheSize = 1

\* C9 (as claimed, after a successful start): every handle that failed or
\* closed is followed by one further attempt, made already or pending on a
\* timer of a process that is still there to run it.
C9_EveryFailureRetries ==
    \A s \in 1..Len(sockets) :
        (sockets[1].promise = "resolved" /\ sockets[s].readyState = 3)
            => (s < Len(sockets) \/ (timers = 1 /\ alive))

\* C10: the link is Disconnected, Connecting or Connected and changes only
\* Disconnected -> Connecting -> Connected, and from either back to Disconnected.
C10_LinkTransitions ==
    /\ [](LinkState \in {"Disconnected", "Connecting", "Connected"})
    /\ [][LinkState' # LinkState =>
            <<LinkState, LinkState'>> \in
                { <<"Disconnected", "Connecting">>, <<"Connecting", "Connected">>,
                  <<"Connecting", "Disconnected">>, <<"Connected", "Disconnected">> }]_vars

\* The link is Connected again on a second handle, after a disconnect.
C10_Witness ==
    /\ Len(sockets) = 2
    /\ sockets[1].readyState = 3
    /\ LinkState = "Connected"

\* Handles that are connecting or open.
LiveSockets == { s \in 1..Len(sockets) : sockets[s].readyState \in {0, WS_OPEN} }

\* C11: at most one handle is connecting or open, every handle but the newest
\* is closed, and at most one reconnect is pending, as a timer or as an attempt.
C11_OneLiveHandle ==
    /\ Cardinality(LiveSockets) <= 1
    /\ \A s \in 1..Len(sockets) : s < Len(sockets) => sockets[s].readyState = 3
    /\ timers <= 1
    /\ timers = 1 => LiveSockets = {}

\* A second handle is live after the first one closed.
C11_Witness ==
    /\ Len(sockets) = 2
    /\ sockets[1].readyState = 3
    /\ LiveSockets = {2}
    /\ timers = 0

\* A processRequest invocation ends in this step.
CompletionStep == Len(completed') = Len(completed) + 1

\* C12: the outbox grows only in the step that completes a request, only by
\* that request's one message and only with the link Connected; no request
\* ever has a message sent at another time, so a dropped one stays dropped.
C12_SendOnlyWhenConnected ==
    /\ [][outbox' # outbox =>
            /\ CompletionStep
            /\ ConnectionOpen
            /\ Len(outbox') = Len(outbox) + 1
            /\ SubSeq(outbox', 1, Len(outbox)) = outbox
            /\ outbox'[Len(outbox')].rid = completed'[Len(completed')].rid]_vars
    /\ [](\A i, j \in 1..Len(outbox) : outbox[i].rid = outbox[j].rid => i = j)

\* A request completed while the link was down, nothing was sent for it, and
\* the link is Connected again on a new handle.
C12_Witness ==
    /\ Len(sockets) = 2
    /\ LinkState = "Connected"
    /\ \E i \in Done :
           /\ SuccessAt(i)
           /\ \A k \in 1..Len(outbox) : outbox[k].rid # completed[i].rid

\* C13 (as claimed): once the first handshake has succeeded the process
\* never terminates.
C13_NoExitAfterStart ==
    (Len(sockets) >= 1 /\ sockets[1].promise = "resolved") => alive

\* C14: a failed first handshake ends the process with a non-zero status; a
\* probe that finds the backend unavailable leaves main() at the connect
\* step, and the only way out of that step is the connection attempt.
C14_StartupFailures ==
    /\ []((Len(sockets) >= 1 /\ sockets[1].promise = "rejected")
            => (mainPc = "exited" /\ exitCode # Absent /\ Val(exitCode) # 0))
    /\ [][(mainPc = "start" /\ ollamaAvailable' = Some(FALSE)) => mainPc' = "probed"]_vars
    /\ [][(mainPc = "probed" /\ mainPc' = "connecting")
            => (Len(sockets') = 1 /\ sockets'[1].readyState = 0
                /\ ollamaAvailable' = ollamaAvailable)]_vars

\* The first handshake failed on the only handle and the process has exited
\* with status 1.
C14_Witness ==
    /\ Len(sockets) = 1
    /\ sockets[1].promise = "rejected"
    /\ mainPc = "exited"
    /\ exitCode = Some(1)

\* The POSTs issued for a request.
CallsFor(rid) == { k \in 1..Len(backendCalls) : backendCalls[k].rid = rid }

\* A semantic_request is accepted in this step.
AcceptStep ==
    /\ received' = received + 1
    /\ IsSemanticRequest(Val(lastInbound'))

\* C15: processRequest runs generate once per accepted request, in the step
\* that accepts it: a backend call is only ever issued in that step and for
\* that request, a request has one call (none when generate throws before its
\* POST), and a failed request is no longer in flight.
C15_FailureIsTerminal ==
    /\ [](\A rid \in Rids :
             /\ Cardinality(CallsFor(rid)) = IF GenerateThrowsEarly(processingQueue[rid]) THEN 0 ELSE 1
             /\ Failed(rid) => rid \notin inflight)
    /\ [][backendCalls' # backendCalls =>
            /\ AcceptStep
            /\ Len(backendCalls') = Len(backendCalls) + 1
            /\ SubSeq(backendCalls', 1, Len(backendCalls)) = backendCalls
            /\ backendCalls'[Len(backendCalls')].rid = Len(processingQueue')
            /\ Len(processingQueue') = Len(processingQueue) + 1]_vars

\* A request failed at the backend after its one call, and the bridge has
\* since reconnected to the relay.
C15_Witness ==
    /\ Len(sockets) = 2
    /\ LinkState = "Connected"
    /\ \E rid \in Rids : Failed(rid) /\ Cardinality(CallsFor(rid)) = 1

\* C16: every step keeps the queue as a prefix of the next queue, the queue
\* grows by one exactly in the steps that accept a semantic_request, and
\* queueLength is the number of requests in flight plus the number completed.
C16_QueueOnlyGrows ==
    /\ [][/\ Len(processingQueue') >= Len(processingQueue)
          /\ SubSeq(processingQueue', 1, Len(processingQueue)) = processingQueue
          /\ Len(processingQueue') = Len(processingQueue) + (IF AcceptStep THEN 1 ELSE 0)]_vars
    /\ [](getStats.queueLength = Cardinality(inflight) + Len(completed))

\* Two requests were accepted; one has failed and the other is still in flight.
C16_Witness ==
    /\ getStats.queueLength = 2
    /\ inflight # {}
    /\ \E i \in Done : ~SuccessAt(i)

\* The payload has a type and it is not semantic_request.
OtherType(data) ==
    /\ ~Malformed(data)
    /\ data.type # Some("semantic_request")

\* C17: a step that receives a payload of another type sends nothing, calls
\* no backend and leaves the queue, the cache and the statistics untouched.
C17_OtherTypeIsDiscarded ==
    [][(received' = received + 1 /\ OtherType(Val(lastInbound')))
          => /\ UNCHANGED <<processingQueue, messageCache, backendCalls, inflight, outbox,
                            completed, uuidCount>>
             /\ getStats' = getStats]_vars

\* A payload of another type arrived after a request had been queued,
\* answered and cached.
C17_Witness ==
    /\ lastInbound # Absent
    /\ OtherType(Val(lastInbound))
    /\ Len(processingQueue) > 0
    /\ Len(messageCache) > 0
    /\ Len(outbox) > 0

\* getStats() reports a nonzero queueLength or cacheSize.
StatsNonzero == getStats.queueLength > 0 \/ getStats.cacheSize > 0

\* C18: a step in which the tick prints changes nothing of the bridge, the
\* link or main() and is taken with nonzero statistics; a snapshot has been
\* printed only with nonzero statistics; and while main() runs, a tick with
\* nonzero statistics prints.
C18_StatsTickReadOnly ==
    /\ [][statsOut' # statsOut =>
            /\ UNCHANGED <<mainVars, linkVars, bridgeVars>>
            /\ statsOut'
            /\ StatsNonzero]_vars
    /\ [](statsOut => StatsNonzero)
    /\ []((mainPc = "running" /\ StatsNonzero) => ENABLED (StatsTick /\ statsOut'))

\* A snapshot was printed while a request was in flight on a closed link.
C18_Witness ==
    /\ statsOut
    /\ inflight # {}
    /\ LinkState = "Disconnected"

\* C19: cachedResponses has cacheSize entries, lists no id twice, lists
\* exactly the ids that have a cached response, and lists them in the order
\* of their first successful completion.
C19_KeysInFirstInsertionOrder ==
    LET keys == getStats.cachedResponses
    IN /\ Len(keys) = getStats.cacheSize
       /\ \A a, b \in 1..Len(keys) : keys[a] = keys[b] => a = b
       /\ \A i \in Done : SuccessAt(i) => \E a \in 1..Len(keys) : keys[a] = IdAt(i)
       /\ \A a, b \in 1..Len(keys) :
             a < b => \E i \in Done :
                         /\ SuccessAt(i)
                         /\ IdAt(i) = keys[a]
                         /\ \A j \in Done : (SuccessAt(j) /\ IdAt(j) = keys[b]) => i < j

\* Two ids are cached and the first was written again after the second came in.
C19_Witness ==
    /\ getStats.cacheSize = 2
    /\ \E i, j, k \in Done :
          /\ i < j /\ j < k
          /\ SuccessAt(i) /\ SuccessAt(j) /\ SuccessAt(k)
          /\ IdAt(i) = getStats.cachedResponses[1]
          /\ IdAt(j) = getStats.cachedResponses[2]
          /\ IdAt(k) = getStats.cachedResponses[1]

\* C20: no accepted request waits in the queue: each is in flight or has
\* completed, its generate() having run in the step that received it (issuing
\* the POST, or throwing before it when the prompt is absent); and while the
\* link is open the next message is taken whatever is in flight, a request
\* with a prompt adding one more call in flight.
C20_NoBackpressure ==
    /\ [](\A rid \in Rids : rid \in inflight \/ \E i \in Done : completed[i].rid = rid)
    /\ [][AcceptStep =>
            LET rid == Len(processingQueue')
            IN IF GenerateThrowsEarly(processingQueue'[rid])
               THEN inflight' = inflight /\ completed'[Len(completed')].rid = rid
               ELSE /\ inflight' = inflight \cup {rid}
                    /\ rid \notin inflight
                    /\ Len(backendCalls') = Len(backendCalls) + 1
                    /\ backendCalls'[Len(backendCalls')].rid = rid]_vars
    /\ []((ConnectionOpen /\ alive /\ received < MaxBurst)
            => \A data \in BurstPayloads :
                  ENABLED (/\ ReceiveBurst(federationConnection, data)
                           /\ data.prompt # Absent
                                => Cardinality(inflight') = Cardinality(inflight) + 1))

\* As many backend calls are in flight as messages have come in, the whole burst.
C20_Witness ==
    /\ received = MaxBurst
    /\ Cardinality(inflight) = MaxBurst
    /\ completed = <<>>

\* C21 (as claimed): whatever happens to the relay link, a backend call in
\* flight can still complete and have its result handled by processRequest.
C21_DisconnectNeverCancels ==
    \A rid \in inflight : \A data \in Replies : ENABLED BackendReply(rid, data)

\* C22 (as claimed): every queued request whose prompt is empty or absent has
\* had a backend call issued for it.
C22_PromptlessIsDispatched ==
    \A rid \in Rids :
        processingQueue[rid].prompt \in {Absent, Some("")} => CallsFor(rid) # {}

\* The promise initialize() awaits.
InitialPromise == IF sockets = <<>> THEN "none" ELSE sockets[1].promise

\* C23: the promise of the first attempt never changes once settled; it
\* resolves in the step in which the first handle opens, and that step is what
\* lets main() go on; main()'s failure path is taken only with that promise
\* rejected (or the constructor throwing) and only before any reconnect; and a
\* step of a later attempt neither touches that promise nor resumes main().
C23_InitialPromiseSettlesOnce ==
    /\ [][(InitialPromise \in {"resolved", "rejected"}) => InitialPromise' = InitialPromise]_vars
    /\ [][(InitialPromise # "resolved" /\ InitialPromise' = "resolved")
            <=> (mainPc = "connecting" /\ mainPc' = "running")]_vars
    /\ [][(InitialPromise # "resolved" /\ InitialPromise' = "resolved")
            => (sockets[1].readyState = 0 /\ sockets'[1].readyState = WS_OPEN)]_vars
    /\ [][(mainPc \in {"probed", "connecting"} /\ mainPc' = "exited")
            => (Len(sockets') <= 1 /\ InitialPromise' \in {"none", "rejected"})]_vars
    /\ [][(\E s \in 2..Len(sockets) : sockets'[s] # sockets[s])
            => (InitialPromise' = InitialPromise /\ mainPc' \in {mainPc, "exited"}
                /\ mainPc = "running")]_vars

\* The first handshake succeeded, a reconnect attempt failed later, and the
\* initial promise is still resolved.
C23_Witness ==
    /\ Len(sockets) = 2
    /\ InitialPromise = "resolved"
    /\ sockets[2].promise = "rejected"

\* The outbound messages produced for a request.
SentFor(rid) == { k \in 1..Len(outbox) : outbox[k].rid = rid }

\* C24: a request completes at most once and is then no longer in flight; a
\* success is in the cache under the request's id as it completes, a failure
\* leaves the cache alone; a request has at most one outbound message, sent
\* once it has completed: a semantic_response if it succeeded, a
\* semantic_error if it failed.
C24_OneOutcomePerRequest ==
    /\ [](\A i, j \in Done : completed[i].rid = completed[j].rid => i = j)
    /\ [](\A i \in Done :
             /\ completed[i].rid \notin inflight
             /\ Cardinality(SentFor(completed[i].rid)) <= 1
             /\ \A k \in SentFor(completed[i].rid) :
                   outbox[k].type = IF SuccessAt(i) THEN "semantic_response" ELSE "semantic_error")
    /\ [](\A rid \in inflight : SentFor(rid) = {})
    /\ [][CompletionStep =>
            LET i == Len(completed')
                id == processingQueue'[completed'[i].rid].id
            IN IF completed'[i].response # Absent
               THEN MapGet(messageCache', id) = completed'[i].response
               ELSE messageCache' = messageCache]_vars

\* One request succeeded and had its response sent, another failed and had
\* its error sent.
C24_Witness ==
    \E i, j \in Done :
        /\ SuccessAt(i) /\ ~SuccessAt(j)
        /\ \E k \in SentFor(completed[i].rid) : outbox[k].type = "semantic_response"
        /\ \E k \in SentFor(completed[j].rid) : outbox[k].type = "semantic_error"

\* The ids of the queued requests.
QueuedIds == { processingQueue[rid].id : rid \in Rids }

\* C25: cacheSize never exceeds queueLength and every key of the cache is
\* the id of a queued request.
C25_CacheWithinQueue ==
    /\ getStats.cacheSize <= getStats.queueLength
    /\ \A e \in 1..Len(messageCache) : messageCache[e].key \in QueuedIds

\* Three requests are queued, two ids are cached: two of the requests shared
\* an id and every one of them succeeded.
C25_Witness ==
    /\ getStats.queueLength = 3
    /\ getStats.cacheSize = 2
    /\ \A rid \in Rids : \E i \in Done : completed[i].rid = rid /\ SuccessAt(i)

\* C26: every cache entry holds a response whose id is the entry's key and
\* whose prompt is the prompt of a queued request with that id.
C26_EntryMatchesKey ==
    \A e \in 1..Len(messageCache) :
        /\ messageCache[e].value.id = messageCache[e].key
        /\ \E rid \in Rids :
              /\ processingQueue[rid].id = messageCache[e].key
              /\ processingQueue[rid].prompt = messageCache[e].value.prompt

\* Two queued requests share an id and differ in their prompt, and the
\* cache holds a response under that id.
C26_Witness ==
    \E e \in 1..Len(messageCache) : \E r1, r2 \in Rids :
        /\ processingQueue[r1].id = messageCache[e].key
        /\ processingQueue[r2].id = messageCache[e].key
        /\ processingQueue[r1].prompt # processingQueue[r2].prompt
        /\ processingQueue[r2].prompt = messageCache[e].value.prompt

\* C27: a message that goes out goes out on the handle federationConnection
\* refers to in that step, which is the newest handle and is open; a request
\* that completes with that handle not open sends on no handle, old or new.
C27_SentOnCurrentHandle ==
    /\ [][outbox' # outbox =>
            LET m == outbox'[Len(outbox')]
            IN /\ m.sock = federationConnection
               /\ m.sock = Len(sockets)
               /\ sockets[m.sock].readyState = WS_OPEN]_vars
    /\ [][(CompletionStep /\ LinkState # "Connected") => outbox' = outbox]_vars

\* Two requests came in on the first handle, the later one was answered on
\* it (so both arrived before the disconnect), and the earlier one was
\* answered on the second handle after the reconnect.
C27_Witness ==
    \E k1, k2 \in 1..Len(outbox) :
        /\ outbox[k1].rid < outbox[k2].rid
        /\ outbox[k2].sock = 1
        /\ outbox[k1].sock = 2
        /\ outbox[k1].type = "semantic_response"

====
